---- MODULE Spec2Model ----
(***************************************************************************)
(* A model of dotplot.DotPlot (src/dotplot/__init__.py).                   *)
(*                                                                         *)
(* A pandas DataFrame is a record [index, columns, values]: the row        *)
(* labels, the column labels and the rows of cells.  A Python string is a  *)
(* sequence of one-character strings, so that join, split and startswith   *)
(* are computed character by character.  An optional value (None or a      *)
(* value) is the empty sequence or a one-element sequence.  Numbers are    *)
(* rationals with denominator Den, stored as their numerators, so that     *)
(* math.floor and math.ceil are not the identity.                          *)
(***************************************************************************)
EXTENDS Integers, Sequences, FiniteSets, TLC

VARIABLES
  self,    \* the DotPlot object, or NoObject before a successful construction
  born,    \* the object as its constructor left it
  call,    \* the last call and its arguments
  err,     \* the exception the last call raised, or "none"
  out,     \* what the last plot call drew
  nplots   \* the number of plot calls made on the object

vars == <<self, born, call, err, out, nplots>>

----------------------------------------------------------------------------
(* Bounds of the model *)

MaxCells == 4      \* a directly constructed matrix has at most MaxCells cells
MaxFactor == 2     \* size_factor ranges over 1..MaxFactor
MaxLegend == 5     \* legend_elements returns 0..MaxLegend entries
MaxRows == 3       \* a long-form table has 1..MaxRows rows
MaxPlots == 2      \* plot is called at most MaxPlots times on an object

(* Numbers *)

Den == 2           \* the denominator of every number of the model

None == <<>>
Some(x) == <<x>>
IsNone(o) == o = <<>>
Get(o) == o[1]

Min2(a, b) == IF a <= b THEN a ELSE b
Max2(a, b) == IF a >= b THEN a ELSE b

RECURSIVE SeqMin(_)
SeqMin(s) == IF Len(s) = 1 THEN s[1] ELSE Min2(s[1], SeqMin(Tail(s)))

RECURSIVE SeqMax(_)
SeqMax(s) == IF Len(s) = 1 THEN s[1] ELSE Max2(s[1], SeqMax(Tail(s)))

\* math.floor and math.ceil of the rational n/Den, as a numerator over Den
FloorDen(n) == n - (n % Den)
CeilDen(n) == IF n % Den = 0 THEN n ELSE FloorDen(n) + Den

\* math.ceil(a / b) for naturals a and b > 0
CeilDiv(a, b) == (a + b - 1) \div b

(* Python lists *)

\* list(range(1, n + 1))
Range1(n) == [i \in 1..n |-> i]

\* lst * k
RECURSIVE Repeat(_, _)
Repeat(lst, k) == IF k = 0 THEN <<>> ELSE lst \o Repeat(lst, k - 1)

\* sorted(lst) for a list of integers
RECURSIVE Insert(_, _)
Insert(x, s) ==
  IF s = <<>> THEN <<x>>
  ELSE IF x <= s[1] THEN <<x>> \o s
  ELSE <<s[1]>> \o Insert(x, Tail(s))

RECURSIVE sorted(_)
sorted(lst) == IF lst = <<>> THEN <<>> ELSE Insert(lst[1], sorted(Tail(lst)))

\* lst[::-1]
Reverse(lst) == [i \in 1..Len(lst) |-> lst[Len(lst) + 1 - i]]

\* the concatenation of a list of lists
RECURSIVE Concat(_)
Concat(ls) == IF ls = <<>> THEN <<>> ELSE ls[1] \o Concat(Tail(ls))

(* DataFrames *)

Shape(df) == <<Len(df.index), Len(df.columns)>>

\* df.values.flatten(): the cells in row-major order
Flatten(df) == Concat(df.values)

\* df.applymap(func=lambda x: x * size_factor)
ApplyMul(df, size_factor) ==
  [df EXCEPT !.values =
     [r \in 1..Len(df.values) |->
        [c \in 1..Len(df.values[r]) |-> df.values[r][c] * size_factor]]]

----------------------------------------------------------------------------
(* DotPlot.__init__ *)

NoObject == <<>>

\* The condition of line 28 is built with &, which evaluates both operands:
\* with df_color None, df_color.shape raises AttributeError.
DotPlot_new(df_size, df_color) ==
  IF IsNone(df_color)
    THEN [err |-> "AttributeError", obj |-> NoObject]
  ELSE IF Shape(df_size) # Shape(Get(df_color))
    THEN [err |-> "ValueError", obj |-> NoObject]
  ELSE [err |-> "none",
        obj |-> Some([size_data |-> df_size,
                      color_data |-> df_color,
                      height_item |-> Shape(df_size)[1],
                      width_item |-> Shape(df_size)[2],
                      resized_size_data |-> None])]

----------------------------------------------------------------------------
(* DotPlot.plot and its helpers *)

\* Class constants, in hundredths of an inch
DEFAULT_ITEM_HEIGHT == 30
DEFAULT_ITEM_WIDTH == 35
DEFAULT_LEGENDS_WIDTH == 50
MIN_FIGURE_HEIGHT == 300

\* figsize = (figure_width, figure_height) and the width ratio of the grid
get_figure(obj) ==
  LET lens == [i \in 1..Len(obj.size_data.index) |-> Len(obj.size_data.index[i])]
      text_max == CeilDiv(SeqMax(lens), 15)
      mainplot_height == obj.height_item * DEFAULT_ITEM_HEIGHT
      mainplot_width == (text_max + obj.width_item) * DEFAULT_ITEM_WIDTH
      figure_height == Max2(MIN_FIGURE_HEIGHT, mainplot_height)
      figure_width == mainplot_width + DEFAULT_LEGENDS_WIDTH
  IN [figsize |-> <<figure_width, figure_height>>,
      width_ratios |-> <<mainplot_width, DEFAULT_LEGENDS_WIDTH>>]

\* get_coordinates with the two axes exchanged
get_coordinates_transposed(obj, size_factor) ==
  [X |-> sorted(Repeat(Range1(obj.width_item), obj.height_item)),
   Y |-> Repeat(Range1(obj.height_item), obj.width_item),
   resized_size_data |-> ApplyMul(obj.size_data, size_factor)]

\* get_coordinates scaling the previous resized_size_data when there is one
get_coordinates_accumulating(obj, size_factor) ==
  [X |-> Repeat(Range1(obj.width_item), obj.height_item),
   Y |-> sorted(Repeat(Range1(obj.height_item), obj.width_item)),
   resized_size_data |->
     ApplyMul(IF IsNone(obj.resized_size_data) THEN obj.size_data
              ELSE Get(obj.resized_size_data), size_factor)]

\* X, Y and the new value of self.resized_size_data
get_coordinates(obj, size_factor) ==
  [X |-> Repeat(Range1(obj.width_item), obj.height_item),
   Y |-> sorted(Repeat(Range1(obj.height_item), obj.width_item)),
   resized_size_data |-> ApplyMul(obj.size_data, size_factor)]

\* The scatter collection: its offsets, its sizes and its colour array
\* (get_array() is None when the colour is the constant 'r'), and the axes
\* settings, limits in tenths.
draw_dotplot(obj, size_factor) ==
  LET co == get_coordinates(obj, size_factor)
  IN [X |-> co.X,
      Y |-> co.Y,
      s |-> Flatten(co.resized_size_data),
      c |-> IF IsNone(obj.color_data) THEN "r" ELSE "array",
      array |-> IF IsNone(obj.color_data) THEN None
                ELSE Some(Flatten(Get(obj.color_data))),
      xlim |-> <<5, 10 * obj.width_item + 5>>,
      ylim |-> <<6, 10 * obj.height_item + 6>>,
      xticks |-> Range1(obj.width_item),
      yticks |-> Range1(obj.height_item),
      xticklabels |-> obj.size_data.columns,
      yticklabels |-> obj.size_data.index]

\* lst[[0, math.ceil(len(lst) / 2), -1]] when len(lst) > 3 (0-based indices)
legend_reduce(lst) ==
  IF Len(lst) > 3
    THEN <<lst[0 + 1], lst[CeilDiv(Len(lst), 2) + 1], lst[Len(lst)]>>
    ELSE lst

\* legend_elements returned (handles, labels); both are reduced alike
draw_legend(handles, labels) ==
  [handles |-> legend_reduce(handles), labels |-> legend_reduce(labels)]

\* draw_color_bar rounding both inferred bounds down
draw_color_bar_floor_both(array, vmin, vmax) ==
  IF IsNone(array) /\ (IsNone(vmax) \/ IsNone(vmin))
    THEN [err |-> "AttributeError", yticklabels |-> None]
    ELSE [err |-> "none",
          yticklabels |->
            Some(<<IF IsNone(vmin) THEN FloorDen(SeqMin(Get(array))) ELSE Get(vmin),
                   IF IsNone(vmax) THEN FloorDen(SeqMax(Get(array))) ELSE Get(vmax)>>)]

\* The tick labels [vmin, vmax] of the colour bar; vmax is inferred first.
draw_color_bar(array, vmin, vmax) ==
  IF IsNone(array) /\ (IsNone(vmax) \/ IsNone(vmin))
    THEN [err |-> "AttributeError", yticklabels |-> None]
    ELSE [err |-> "none",
          yticklabels |->
            Some(<<IF IsNone(vmin) THEN FloorDen(SeqMin(Get(array))) ELSE Get(vmin),
                   IF IsNone(vmax) THEN CeilDen(SeqMax(Get(array))) ELSE Get(vmax)>>)]

\* The entries sct.legend_elements produces: handle i carries label 100 + i
LegendHandles(n) == [i \in 1..n |-> i]
LegendLabels(n) == [i \in 1..n |-> 100 + i]

\* The whole of plot(): the object afterwards, the error and what was drawn.
\* resized_size_data is assigned in __draw_dotplot, before the colour bar can
\* raise.  plt.style.use and the colour map do not bear on what is modelled.
plot_result(obj, size_factor, vmin, vmax, path, n) ==
  LET fig == get_figure(obj)
      sct == draw_dotplot(obj, size_factor)
      obj2 == [obj EXCEPT !.resized_size_data =
                 Some(get_coordinates(obj, size_factor).resized_size_data)]
      legend == draw_legend(LegendHandles(n), LegendLabels(n))
      cbar == draw_color_bar(sct.array, vmin, vmax)
  IN IF cbar.err # "none"
       THEN [obj |-> obj2, err |-> cbar.err, out |-> None]
       ELSE [obj |-> obj2, err |-> "none",
             out |-> Some([fig |-> fig, scatter |-> sct, legend |-> legend,
                           cbar |-> Get(cbar.yticklabels),
                           saved |-> ~IsNone(path)])]

----------------------------------------------------------------------------
(* Python strings, as sequences of characters *)

\* The characters of the model in code-point order
Alphabet == <<"_", "a", "b", "c", "g", "p", "r", "s", "x", "y", "z">>

Ord(ch) == CHOOSE i \in 1..Len(Alphabet) : Alphabet[i] = ch

\* s < t for Python strings
RECURSIVE StrLess(_, _)
StrLess(s, t) ==
  IF t = <<>> THEN FALSE
  ELSE IF s = <<>> THEN TRUE
  ELSE IF s[1] # t[1] THEN Ord(s[1]) < Ord(t[1])
  ELSE StrLess(Tail(s), Tail(t))

\* s.startswith(prefix)
startswith(s, prefix) ==
  Len(prefix) <= Len(s) /\ SubSeq(s, 1, Len(prefix)) = prefix

\* '_'.join(parts)
RECURSIVE join(_)
join(parts) ==
  IF parts = <<>> THEN <<>>
  ELSE IF Len(parts) = 1 THEN parts[1]
  ELSE parts[1] \o <<"_">> \o join(Tail(parts))

\* s.split('_')
RECURSIVE split(_)
split(s) ==
  IF \A i \in 1..Len(s) : s[i] # "_" THEN <<s>>
  ELSE LET i == CHOOSE k \in 1..Len(s) :
                  s[k] = "_" /\ \A j \in 1..(k - 1) : s[j] # "_"
       IN <<SubSeq(s, 1, i - 1)>> \o split(SubSeq(s, i + 1, Len(s)))

\* '_'.join(x.split('_')[1:])
strip_key(x) == join(Tail(split(x)))

\* The labels of a set in sorted order
RECURSIVE SortLabels(_)
SortLabels(S) ==
  IF S = {} THEN <<>>
  ELSE LET m == CHOOSE x \in S : \A y \in S : y = x \/ StrLess(x, y)
       IN <<m>> \o SortLabels(S \ {m})

----------------------------------------------------------------------------
(* DotPlot.parse_from_tidy_data *)

\* A long-form table is a sequence of rows [item, group, size, color].

\* sizes_func and color_func: None or a function of one number
ApplyFunc(func, x) == IF func = "None" THEN x ELSE 2 * x

\* data_frame[key] = data_frame[key].map(func), for both value columns
map_values(rows, sizes_func, color_func) ==
  [i \in 1..Len(rows) |->
     [rows[i] EXCEPT !.size = ApplyFunc(sizes_func, @),
                     !.color = ApplyFunc(color_func, @)]]

\* data_frame.pivot(index=item_key, columns=group_key,
\*                  values=[color_key, sizes_key]):
\* sorted unique items by sorted unique groups under each value key, the
\* colour block first; a cell without source row is NaN (None); a repeated
\* (item, group) pair raises ValueError.
pivot(rows, sizes_key, color_key) ==
  LET n == Len(rows)
      items == SortLabels({rows[i].item : i \in 1..n})
      groups == SortLabels({rows[i].group : i \in 1..n})
      G == Len(groups)
      cols == [k \in 1..(2 * G) |->
                 IF k <= G THEN <<color_key, groups[k]>>
                 ELSE <<sizes_key, groups[k - G]>>]
      Cell(it, k) ==
        LET g == IF k <= G THEN groups[k] ELSE groups[k - G]
            hits == {i \in 1..n : rows[i].item = it /\ rows[i].group = g}
        IN IF hits = {} THEN None
           ELSE LET i == CHOOSE h \in hits : TRUE
                IN Some(IF k <= G THEN rows[i].color ELSE rows[i].size)
  IN IF \E i, j \in 1..n :
          i < j /\ rows[i].item = rows[j].item /\ rows[i].group = rows[j].group
       THEN [err |-> "ValueError", df |-> None]
       ELSE [err |-> "none",
             df |-> Some([index |-> items,
                          columns |-> cols,
                          values |-> [r \in 1..Len(items) |->
                                        [k \in 1..(2 * G) |-> Cell(items[r], k)]]])]

\* The positions of an axis a list of labels selects with .loc: for each
\* label in turn every position carrying it; KeyError when a label has none.
Positions(axis, label) ==
  SelectSeq(Range1(Len(axis)), LAMBDA i : axis[i] = label)

loc_indexer(axis, labels) ==
  IF \E k \in 1..Len(labels) : Positions(axis, labels[k]) = <<>>
    THEN [err |-> "KeyError", pos |-> <<>>]
    ELSE [err |-> "none",
          pos |-> Concat([k \in 1..Len(labels) |-> Positions(axis, labels[k])])]

take_rows(df, pos) ==
  [index |-> [i \in 1..Len(pos) |-> df.index[pos[i]]],
   columns |-> df.columns,
   values |-> [i \in 1..Len(pos) |-> df.values[pos[i]]]]

take_columns(df, pos) ==
  [index |-> df.index,
   columns |-> [k \in 1..Len(pos) |-> df.columns[pos[k]]],
   values |-> [r \in 1..Len(df.values) |->
                 [k \in 1..Len(pos) |-> df.values[r][pos[k]]]]]

\* data_frame.loc[labels, :]
loc_rows(df, labels) ==
  LET ix == loc_indexer(df.index, labels)
  IN IF ix.err # "none" THEN [err |-> ix.err, df |-> None]
     ELSE [err |-> "none", df |-> Some(take_rows(df, ix.pos))]

\* data_frame.loc[:, labels] on the two-level columns (key, group): a list
\* of plain labels is looked up in the first level, the value keys.
loc_columns(df, labels) ==
  LET level0 == [k \in 1..Len(df.columns) |-> df.columns[k][1]]
      ix == loc_indexer(level0, labels)
  IN IF ix.err # "none" THEN [err |-> ix.err, df |-> None]
     ELSE [err |-> "none", df |-> Some(take_columns(df, ix.pos))]

\* data_frame.columns = data_frame.columns.map(lambda x: '_'.join(x))
join_columns(df) ==
  [df EXCEPT !.columns = [k \in 1..Len(df.columns) |-> join(df.columns[k])]]

\* data_frame.fillna(0)
fillna(df) ==
  [df EXCEPT !.values =
     [r \in 1..Len(df.values) |->
        [k \in 1..Len(df.values[r]) |->
           IF IsNone(df.values[r][k]) THEN 0 ELSE Get(df.values[r][k])]]]

\* data_frame.loc[:, data_frame.columns.str.startswith(key)]
select_startswith(df, key) ==
  take_columns(df, SelectSeq(Range1(Len(df.columns)),
                             LAMBDA k : startswith(df.columns[k], key)))

\* df.columns = df.columns.map(lambda x: '_'.join(x.split('_')[1:]))
strip_columns(df) ==
  [df EXCEPT !.columns = [k \in 1..Len(df.columns) |-> strip_key(df.columns[k])]]

\* the item column as a list, not reversed
original_item_order_unreversed(rows) == [i \in 1..Len(rows) |-> rows[i].item]

\* _original_item_order: the item column as a list, reversed
original_item_order(rows) == Reverse([i \in 1..Len(rows) |-> rows[i].item])

\* The whole class method; it ends in cls(color_df, sizes_df), so df_size
\* receives the colour frame and df_color the size frame.
parse_result(rows, sizes_key, color_key, selected_item, selected_group, sizes_func, color_func) ==
  LET item_order == original_item_order(rows)
      pv == pivot(map_values(rows, sizes_func, color_func), sizes_key, color_key)
      Fail(e) == [err |-> e, obj |-> NoObject]
  IN IF pv.err # "none" THEN Fail(pv.err)
     ELSE
       LET d1 == take_rows(Get(pv.df), loc_indexer(Get(pv.df).index, item_order).pos)
           d2 == IF IsNone(selected_item) THEN [err |-> "none", df |-> Some(d1)]
                 ELSE loc_rows(d1, Get(selected_item))
       IN IF d2.err # "none" THEN Fail(d2.err)
          ELSE
            LET d3 == IF IsNone(selected_group) THEN d2
                      ELSE loc_columns(Get(d2.df), Get(selected_group))
            IN IF d3.err # "none" THEN Fail(d3.err)
               ELSE
                 LET d4 == fillna(join_columns(Get(d3.df)))
                     color_df == strip_columns(select_startswith(d4, color_key))
                     sizes_df == strip_columns(select_startswith(d4, sizes_key))
                 IN DotPlot_new(color_df, Some(sizes_df))

----------------------------------------------------------------------------
(* Inputs *)

\* Directly constructed frames: H rows by W columns, H * W <= MaxCells, the
\* cells taken in row-major order from a base sequence
RowLabel(i) == [j \in 1..i |-> "a"]
ColLabel(i) == [j \in 1..i |-> "x"]

SizeBases == {<<1, 2, 3, 4, 5, 6>>}
ColorBases == {<<3, -5, 1, 7, -1, 2>>}

Shapes == {sh \in (1..MaxCells) \X (1..MaxCells) : sh[1] * sh[2] <= MaxCells}

Frame(H, W, base) ==
  [index |-> [i \in 1..H |-> RowLabel(i)],
   columns |-> [k \in 1..W |-> ColLabel(k)],
   values |-> [r \in 1..H |-> [k \in 1..W |-> base[(r - 1) * W + k]]]]

Frames(bases) == {Frame(sh[1], sh[2], b) : sh \in Shapes, b \in bases}

\* Arguments of plot: omitted, or supplied as None or as a number
Omitted == [supplied |-> FALSE, value |-> None]
Supplied(v) == [supplied |-> TRUE, value |-> v]
ExplicitBounds == {3}
BoundArgs == {Omitted, Supplied(None)} \cup {Supplied(Some(v)) : v \in ExplicitBounds}
PathArgs == {None, Some("fig.png")}

\* Long-form tables: row i holds size i and colour 10 + i
ItemLabels == {<<"a">>, <<"b">>}
GroupLabels == {<<"x">>, <<"y", "_", "z">>}

Tables ==
  UNION {{[i \in 1..n |-> [item |-> t[i][1], group |-> t[i][2],
                          size |-> i, color |-> 10 + i]] :
            t \in [1..n -> ItemLabels \X GroupLabels]} : n \in 1..MaxRows}

\* <<sizes_key, color_key>>
KeyPairs == {<<(<<"s">>), (<<"c">>)>>,
             <<(<<"g", "_", "r">>), (<<"c">>)>>,
             <<(<<"p", "c">>), (<<"p">>)>>,
             <<(<<"p">>), (<<"p", "c">>)>>}

SelectedItems == {None, Some(<< <<"b">> >>), Some(<< <<"a">>, <<"b">> >>)}
SelectedGroups(keys) == {None, Some(<< <<"x">> >>), Some(<<keys[1], keys[2]>>)}
Funcs == {"None", "twice"}

----------------------------------------------------------------------------
(* The state machine *)

Init ==
  /\ self = NoObject
  /\ born = NoObject
  /\ call = [op |-> "none"]
  /\ err = "none"
  /\ out = None
  /\ nplots = 0

\* DotPlot(df_size, df_color)
DotPlot_init ==
  /\ call.op = "none"
  /\ \E df_size \in Frames(SizeBases),
        df_color \in {None} \cup {Some(m) : m \in Frames(ColorBases)} :
       LET r == DotPlot_new(df_size, df_color)
       IN /\ self' = r.obj
          /\ born' = r.obj
          /\ err' = r.err
          /\ call' = [op |-> "__init__", df_size |-> df_size, df_color |-> df_color]
  /\ out' = None
  /\ nplots' = 0

\* DotPlot.parse_from_tidy_data(data_frame, ...)
parse_from_tidy_data ==
  /\ call.op = "none"
  /\ \E rows \in Tables, keys \in KeyPairs, selected_item \in SelectedItems,
        sizes_func \in Funcs, color_func \in Funcs :
       \E selected_group \in SelectedGroups(keys) :
         LET r == parse_result(rows, keys[1], keys[2],
                               selected_item, selected_group, sizes_func, color_func)
         IN /\ self' = r.obj
            /\ born' = r.obj
            /\ err' = r.err
            /\ call' = [op |-> "parse_from_tidy_data", rows |-> rows,
                        sizes_key |-> keys[1], color_key |-> keys[2],
                        selected_item |-> selected_item,
                        selected_group |-> selected_group,
                        sizes_func |-> sizes_func, color_func |-> color_func]
  /\ out' = None
  /\ nplots' = 0

\* self.plot(size_factor, vmin, vmax, path, cmap)
plot ==
  /\ self # NoObject
  /\ nplots < MaxPlots
  /\ \E size_factor \in 1..MaxFactor, vmin \in BoundArgs, vmax \in BoundArgs,
        path \in PathArgs, n \in 0..MaxLegend :
       LET r == plot_result(Get(self), size_factor,
                            IF vmin.supplied THEN vmin.value ELSE Some(0),
                            IF vmax.supplied THEN vmax.value ELSE None,
                            path, n)
       IN /\ self' = Some(r.obj)
          /\ err' = r.err
          /\ out' = r.out
          /\ call' = [op |-> "plot", size_factor |-> size_factor, vmin |-> vmin,
                      vmax |-> vmax, path |-> path, n |-> n]
  /\ nplots' = nplots + 1
  /\ UNCHANGED born

Next == DotPlot_init \/ plot

Spec == Init /\ [][Next]_vars

NextTidy == parse_from_tidy_data

SpecTidy == Init /\ [][NextTidy]_vars

----------------------------------------------------------------------------
(* Properties of construction and rendering, stated for Spec *)

Constructed == call.op = "__init__"
Rendered == call.op = "plot" /\ err = "none"

\* C1: DotPlot(df_size, df_color) succeeds whenever df_color is None or has
\* the shape of df_size, and fails, with the shape-mismatch ValueError only,
\* exactly when a df_color of another shape is supplied.
C1_ConstructionContract ==
  Constructed =>
    IF IsNone(call.df_color) \/ Shape(call.df_size) = Shape(Get(call.df_color))
      THEN err = "none" /\ self # NoObject
      ELSE err = "ValueError" /\ self = NoObject

\* v is the least (greatest) element of the list arr
IsMinOf(v, arr) ==
  (\E i \in 1..Len(arr) : arr[i] = v) /\ (\A i \in 1..Len(arr) : v <= arr[i])
IsMaxOf(v, arr) ==
  (\E i \in 1..Len(arr) : arr[i] = v) /\ (\A i \in 1..Len(arr) : v >= arr[i])

\* lo is floor(v) and hi is ceil(v), all three numerators over Den
IsFloorOf(lo, v) == lo % Den = 0 /\ lo <= v /\ v < lo + Den
IsCeilOf(hi, v) == hi % Den = 0 /\ hi - Den < v /\ v <= hi

ObservedColors == Flatten(Get(Get(self).color_data))

InferredLower(lo) ==
  \E i \in 1..Len(ObservedColors) :
    IsMinOf(ObservedColors[i], ObservedColors) /\ IsFloorOf(lo, ObservedColors[i])
InferredUpper(hi) ==
  \E i \in 1..Len(ObservedColors) :
    IsMaxOf(ObservedColors[i], ObservedColors) /\ IsCeilOf(hi, ObservedColors[i])

\* C6 as stated: a bound the caller does not supply (omitted or None) is
\* shown as floor(min colour) resp. ceil(max colour); a supplied bound is
\* shown as given.
C6_BoundsInferredWhenNotSupplied ==
  Rendered =>
    /\ IF call.vmin.supplied /\ ~IsNone(call.vmin.value)
         THEN Get(out).cbar[1] = Get(call.vmin.value)
         ELSE InferredLower(Get(out).cbar[1])
    /\ IF call.vmax.supplied /\ ~IsNone(call.vmax.value)
         THEN Get(out).cbar[2] = Get(call.vmax.value)
         ELSE InferredUpper(Get(out).cbar[2])

\* C6 amended: the lower bound shown is 0 when vmin is omitted (its default),
\* floor(min colour) when vmin is passed as None, and the number passed
\* otherwise; the upper bound shown is ceil(max colour) when vmax is omitted
\* or None, and the number passed otherwise; neither depends on the other.
C6_BoundsInferredWhenNone ==
  Rendered =>
    /\ IF ~call.vmin.supplied THEN Get(out).cbar[1] = 0
       ELSE IF IsNone(call.vmin.value) THEN InferredLower(Get(out).cbar[1])
       ELSE Get(out).cbar[1] = Get(call.vmin.value)
    /\ IF ~call.vmax.supplied \/ IsNone(call.vmax.value)
         THEN InferredUpper(Get(out).cbar[2])
         ELSE Get(out).cbar[2] = Get(call.vmax.value)

\* A render with vmin passed as None and vmax omitted, whose extreme colours
\* are not whole numbers, so that both bounds shown are rounded
C6_Witness ==
  /\ Rendered
  /\ call.vmin.supplied /\ IsNone(call.vmin.value)
  /\ ~call.vmax.supplied
  /\ Get(out).cbar[1] < 0
  /\ ~IsMinOf(Get(out).cbar[1], ObservedColors)
  /\ ~IsMaxOf(Get(out).cbar[2], ObservedColors)

\* C7: a DotPlot built from a size matrix and no colour matrix exists and
\* renders, with default vmin and vmax, without error: resized_size_data is
\* the size matrix times the factor, the colour is the constant one and
\* H * W points are drawn.
C7_RenderWithoutColor ==
  (Constructed /\ IsNone(call.df_color)) =>
    /\ self # NoObject
    /\ Get(self).size_data = call.df_size
    /\ IsNone(Get(self).color_data)
    /\ \A f \in 1..MaxFactor :
         LET r == plot_result(Get(self), f, Some(0), None, None, 0)
         IN /\ r.err = "none"
            /\ Get(r.obj.resized_size_data) = ApplyMul(call.df_size, f)
            /\ Get(r.out).scatter.c = "r"
            /\ Len(Get(r.out).scatter.X) = Len(Flatten(call.df_size))

\* C8: the H * W points are the grid {1..W} x {1..H} without repetition, x
\* cycling fastest, and point k has the size and colour of the cell in row
\* Y[k] and column X[k].
C8_GridCoordinates ==
  Rendered =>
    LET obj == Get(self)
        H == Len(obj.size_data.index)
        W == Len(obj.size_data.columns)
        sc == Get(out).scatter
    IN /\ Len(sc.X) = H * W /\ Len(sc.Y) = H * W
       /\ Len(sc.s) = H * W /\ Len(Get(sc.array)) = H * W
       /\ {<<sc.X[k], sc.Y[k]>> : k \in 1..(H * W)} = (1..W) \X (1..H)
       /\ \A k \in 1..(H * W) :
            /\ sc.X[k] = ((k - 1) % W) + 1
            /\ sc.Y[k] = ((k - 1) \div W) + 1
            /\ sc.s[k] = obj.size_data.values[sc.Y[k]][sc.X[k]] * call.size_factor
            /\ Get(sc.array)[k] = Get(obj.color_data).values[sc.Y[k]][sc.X[k]]

\* A rendered 2 x 2 matrix whose four cells differ
C8_Witness ==
  /\ Rendered
  /\ Shape(Get(self).size_data) = <<2, 2>>
  /\ Cardinality({Get(out).scatter.s[k] : k \in 1..4}) = 4
  /\ Get(out).scatter.X = <<1, 2, 1, 2>>
  /\ Get(out).scatter.Y = <<1, 1, 2, 2>>

\* C9: n <= 3 legend entries are kept as they are; of n > 3 entries exactly
\* the 1st, the ceil(n/2)-th and the last are kept, handles and labels alike.
C9_LegendMiddleEntry ==
  Rendered =>
    LET n == call.n
        h == LegendHandles(n)
        l == LegendLabels(n)
        kept == Get(out).legend
    IN IF n <= 3
         THEN kept.handles = h /\ kept.labels = l
         ELSE \E m \in 1..n :
                /\ 2 * m \in {n, n + 1}
                /\ kept.handles = <<h[1], h[m], h[n]>>
                /\ kept.labels = <<l[1], l[m], l[n]>>

\* C10: rendering leaves size_data and color_data as constructed, and
\* resized_size_data is size_data times the factor of the last plot call
\* alone, whatever the calls before it.
C10_RenderFrame ==
  self # NoObject =>
    LET obj == Get(self)
    IN /\ obj.size_data = Get(born).size_data
       /\ obj.color_data = Get(born).color_data
       /\ nplots = 0 => IsNone(obj.resized_size_data)
       /\ nplots > 0 =>
            LET rs == Get(obj.resized_size_data)
            IN /\ rs.index = obj.size_data.index
               /\ rs.columns = obj.size_data.columns
               /\ Len(rs.values) = Len(obj.size_data.values)
               /\ \A r \in 1..Len(rs.values) :
                    /\ Len(rs.values[r]) = Len(obj.size_data.values[r])
                    /\ \A k \in 1..Len(rs.values[r]) :
                         rs.values[r][k] = obj.size_data.values[r][k] * call.size_factor

\* A second render, with factor 1, of an object with more than one cell
C10_Witness ==
  /\ self # NoObject
  /\ nplots = 2
  /\ call.op = "plot" /\ call.size_factor = 1
  /\ Len(Flatten(Get(self).size_data)) > 1
  /\ Get(Get(self).resized_size_data) = Get(self).size_data

----------------------------------------------------------------------------
(* Properties of parse_from_tidy_data, stated for SpecTidy *)

Parsed == call.op = "parse_from_tidy_data"
Unselected == IsNone(call.selected_item) /\ IsNone(call.selected_group)

ItemColumn == [i \in 1..Len(call.rows) |-> call.rows[i].item]
SourceItems == {call.rows[i].item : i \in 1..Len(call.rows)}
SourceGroups == {call.rows[i].group : i \in 1..Len(call.rows)}
SourceRows(it, g) ==
  {i \in 1..Len(call.rows) : call.rows[i].item = it /\ call.rows[i].group = g}

\* at most one source row per (item, group)
OneRowPerPair == \A it \in SourceItems, g \in SourceGroups : Cardinality(SourceRows(it, g)) <= 1

\* keys without '_' of which neither begins with the other
PlainKeys ==
  /\ \A i \in 1..Len(call.sizes_key) : call.sizes_key[i] # "_"
  /\ \A i \in 1..Len(call.color_key) : call.color_key[i] # "_"
  /\ ~startswith(call.sizes_key, call.color_key)
  /\ ~startswith(call.color_key, call.sizes_key)

\* the cells of df in a row labelled it and a column labelled g
CellsAt(df, it, g) ==
  {df.values[r][k] : r \in {x \in 1..Len(df.index) : df.index[x] = it},
                     k \in {x \in 1..Len(df.columns) : df.columns[x] = g}}

\* C2: the object parse_from_tidy_data returns holds at cell (item, group) of
\* size_data the transformed sizes_key value of the source row and at that
\* cell of color_data its transformed color_key value, and 0 in both where
\* the source has no row.
C2_RoundTrip ==
  (Parsed /\ Unselected /\ PlainKeys /\ OneRowPerPair) =>
    /\ self # NoObject
    /\ \A it \in SourceItems, g \in SourceGroups :
         LET hits == SourceRows(it, g)
             src == call.rows[CHOOSE i \in hits : TRUE]
             size == IF hits = {} THEN 0 ELSE ApplyFunc(call.sizes_func, src.size)
             color == IF hits = {} THEN 0 ELSE ApplyFunc(call.color_func, src.color)
         IN /\ CellsAt(Get(self).size_data, it, g) = {size}
            /\ CellsAt(Get(Get(self).color_data), it, g) = {color}

\* a list without its repeated elements, first occurrences kept
RECURSIVE FirstSeen(_)
FirstSeen(lst) ==
  IF lst = <<>> THEN <<>>
  ELSE <<lst[1]>> \o FirstSeen(SelectSeq(Tail(lst), LAMBDA x : x # lst[1]))

C4_UniqueRowLabels ==
  (Parsed /\ Unselected /\ self # NoObject) =>
    \A df \in {Get(self).size_data, Get(Get(self).color_data)} :
      /\ Len(df.index) = Cardinality(SourceItems)
      /\ \A it \in SourceItems : Cardinality({r \in 1..Len(df.index) : df.index[r] = it}) = 1

\* C5: whatever the keys, the two matrices returned have the same row labels,
\* the same column labels, which are the group labels of the table, and the
\* same shape.
C5_AlignedAxes ==
  (Parsed /\ Unselected /\ OneRowPerPair) =>
    /\ self # NoObject
    /\ LET sd == Get(self).size_data
           cd == Get(Get(self).color_data)
       IN /\ sd.index = cd.index
          /\ sd.columns = cd.columns
          /\ Shape(sd) = Shape(cd)
          /\ {sd.columns[k] : k \in 1..Len(sd.columns)} = SourceGroups
          /\ Len(sd.columns) = Cardinality(SourceGroups)

====
